---- MODULE Spec2Model ----
(***************************************************************************)
(* A model of the mongobackup utility: the backup program (src/index.js:   *)
(* path generation, capture, retention sweep) and the restore program      *)
(* (src/restore.js: catalog, identifier reconstruction, restore).          *)
(*                                                                         *)
(* Strings are sequences of one-character strings, so that padStart,       *)
(* endsWith, length and the lexicographic order of Array.prototype.sort    *)
(* are computed rather than assumed.  An instant is <<s, ms>>: whole       *)
(* seconds since 2023-01-01T00:00:00Z and the milliseconds within that     *)
(* second.                                                                 *)
(***************************************************************************)
EXTENDS Integers, Sequences, FiniteSets, TLC

(***************************************************************************)
(* Bounds of the model.                                                    *)
(***************************************************************************)
MaxRuns == 2
MaxTicks == 2
MaxDaysToKeep == 1
HashChoices == 2

(***************************************************************************)
(* Characters and strings.                                                 *)
(***************************************************************************)
DigitChars == <<"0", "1", "2", "3", "4", "5", "6", "7", "8", "9">>
HexChars == <<"0", "1", "2", "3", "4", "5", "6", "7", "8", "9", "a", "b", "c", "d", "e", "f">>

\* UTF-16 code units of the characters that occur in storage paths.
CharCode ==
  ("." :> 46) @@ ("/" :> 47) @@ ("0" :> 48) @@ ("1" :> 49) @@ ("2" :> 50) @@
  ("3" :> 51) @@ ("4" :> 52) @@ ("5" :> 53) @@ ("6" :> 54) @@ ("7" :> 55) @@
  ("8" :> 56) @@ ("9" :> 57) @@ ("_" :> 95) @@ ("a" :> 97) @@ ("b" :> 98) @@
  ("c" :> 99) @@ ("d" :> 100) @@ ("e" :> 101) @@ ("f" :> 102) @@ ("j" :> 106) @@
  ("n" :> 110) @@ ("o" :> 111) @@ ("p" :> 112) @@ ("s" :> 115) @@ ("t" :> 116) @@
  ("x" :> 120) @@ ("z" :> 122)

RECURSIVE StrLess(_, _)
\* a < b as JavaScript compares strings (Array.prototype.sort's default order).
StrLess(a, b) ==
  IF b = <<>> THEN FALSE
  ELSE IF a = <<>> THEN TRUE
  ELSE IF Head(a) = Head(b) THEN StrLess(Tail(a), Tail(b))
  ELSE CharCode[Head(a)] < CharCode[Head(b)]

\* String.prototype.endsWith
EndsWith(str, suffix) ==
  /\ Len(str) >= Len(suffix)
  /\ SubSeq(str, Len(str) - Len(suffix) + 1, Len(str)) = suffix

RECURSIVE DecimalString(_)
\* String(n) / n.toString() for a non-negative integer
DecimalString(n) ==
  IF n < 10 THEN <<DigitChars[n + 1]>>
  ELSE Append(DecimalString(n \div 10), DigitChars[(n % 10) + 1])

\* Mutant of PadStart2: the number is not padded.
NoPadStart(str) == str

\* String(n).padStart(2, '0')
PadStart2(str) == IF Len(str) < 2 THEN <<"0">> \o str ELSE str

RECURSIVE HexString(_, _)
\* Buffer.toString('hex') of a value held in `bytes` bytes
HexString(n, bytes) ==
  IF bytes = 0 THEN <<>>
  ELSE HexString(n \div 256, bytes - 1)
         \o <<HexChars[((n % 256) \div 16) + 1], HexChars[(n % 16) + 1]>>

RECURSIVE JoinPath(_)
\* path.join of the components below BACKUP_DIR
JoinPath(p) ==
  IF p = <<>> THEN <<>>
  ELSE IF Len(p) = 1 THEN p[1]
  ELSE p[1] \o <<"/">> \o JoinPath(Tail(p))

DotJson == <<".", "j", "s", "o", "n">>

(***************************************************************************)
(* Time: the calendar of Date's local-time getters.                        *)
(***************************************************************************)
EpochYear == 2023
SecondsPerDay == 86400
SecondsPerHour == 3600

IsLeap(y) == (y % 4 = 0 /\ y % 100 # 0) \/ y % 400 = 0
DaysInYear(y) == IF IsLeap(y) THEN 366 ELSE 365
DaysInMonth(y, m) ==
  IF m = 2 THEN (IF IsLeap(y) THEN 29 ELSE 28)
  ELSE IF m \in {4, 6, 9, 11} THEN 30 ELSE 31

RECURSIVE YearFromDay(_, _)
YearFromDay(d, y) ==
  IF d < DaysInYear(y) THEN <<y, d>> ELSE YearFromDay(d - DaysInYear(y), y + 1)

RECURSIVE MonthFromDay(_, _, _)
MonthFromDay(d, y, m) ==
  IF d < DaysInMonth(y, m) THEN <<m, d>> ELSE MonthFromDay(d - DaysInMonth(y, m), y, m + 1)

\* The calendar fields of a count of local seconds since the epoch.
Fields(localSecs) ==
  LET day == localSecs \div SecondsPerDay
      tod == localSecs % SecondsPerDay
      yd == YearFromDay(day, EpochYear)
      md == MonthFromDay(yd[2], yd[1], 1)
  IN [year |-> yd[1], month |-> md[1], date |-> md[2] + 1,
      hours |-> tod \div SecondsPerHour,
      minutes |-> (tod % SecondsPerHour) \div 60,
      seconds |-> tod % 60]

RECURSIVE DaysBeforeYear(_)
DaysBeforeYear(y) == IF y <= EpochYear THEN 0 ELSE DaysBeforeYear(y - 1) + DaysInYear(y - 1)

RECURSIVE DaysBeforeMonth(_, _)
DaysBeforeMonth(y, m) == IF m <= 1 THEN 0 ELSE DaysBeforeMonth(y, m - 1) + DaysInMonth(y, m - 1)

\* MakeDay/MakeDate: local seconds of (year, month, date, time of day); `date`
\* may be zero or negative, which is how setDate normalises.
MakeLocal(year, month, date, tod) ==
  (DaysBeforeYear(year) + DaysBeforeMonth(year, month) + date - 1) * SecondsPerDay + tod

\* A time zone: UTC offset `before` until the UTC second `at`, `after` from then on.
ZoneOffset(z, utcSecs) == IF utcSecs < z.at THEN z.before ELSE z.after

\* LocalTime(t)
LocalSecs(z, utcSecs) == utcSecs + ZoneOffset(z, utcSecs)

\* UTC(t): a repeated or skipped local time is read with the offset before the
\* transition.
UTCOfLocal(z, localSecs) ==
  IF localSecs - z.after >= z.at /\ localSecs - z.before >= z.at
    THEN localSecs - z.after
    ELSE localSecs - z.before

\* a < b on instants
Before(a, b) == a[1] < b[1] \/ (a[1] = b[1] /\ a[2] < b[2])

(***************************************************************************)
(* Documents.  A value is [t, s, kv]: t its type, s the text of a string,  *)
(* number or identifier, kv the <<key, value>> entries of a mapping or of  *)
(* an array (whose keys are empty).                                        *)
(***************************************************************************)
Null == [t |-> "null", s |-> <<>>, kv |-> <<>>]
Str(text) == [t |-> "str", s |-> text, kv |-> <<>>]
Num(text) == [t |-> "num", s |-> text, kv |-> <<>>]
Oid(hex) == [t |-> "oid", s |-> hex, kv |-> <<>>]
Map(entries) == [t |-> "map", s |-> <<>>, kv |-> entries]
Arr(items) == [t |-> "arr", s |-> <<>>, kv |-> [i \in 1..Len(items) |-> <<<<>>, items[i]>>]]

ObjectIdLen == 24

RECURSIVE ToJSON(_)
\* JSON.parse(JSON.stringify(v)): ObjectId.prototype.toJSON renders a Typed
\* Identifier as its bare hex string; everything else keeps its shape.
ToJSON(v) ==
  IF v.t = "oid" THEN Str(v.s)
  ELSE IF v.t \in {"map", "arr"}
    THEN [v EXCEPT !.kv = [i \in 1..Len(v.kv) |-> <<v.kv[i][1], ToJSON(v.kv[i][2])>>]]
  ELSE v

KeyId == <<"_", "i", "d">>
KeyUserId == <<"u", "s", "e", "r", "I", "d">>
KeyOwner == <<"o", "w", "n", "e", "r">>
KeyName == <<"n", "a", "m", "e">>
KeyOid == <<"$", "o", "i", "d">>

HexDigits ==
  {"0", "1", "2", "3", "4", "5", "6", "7", "8", "9",
   "a", "b", "c", "d", "e", "f", "A", "B", "C", "D", "E", "F"}

\* new ObjectId(text) accepts a string of 24 hex characters and throws on any
\* other string the documents of the model hold.
IsObjectIdText(text) ==
  /\ Len(text) = ObjectIdLen
  /\ \A i \in 1..Len(text) : text[i] \in HexDigits

\* obj[key] of a mapping: the value of its last entry under key, Null if none
RECURSIVE Lookup(_, _)
Lookup(entries, key) ==
  IF entries = <<>> THEN Null
  ELSE IF entries[Len(entries)][1] = key THEN entries[Len(entries)][2]
  ELSE Lookup(SubSeq(entries, 1, Len(entries) - 1), key)

\* JavaScript truthiness of a value: `if (obj.$oid)`
Truthy(v) ==
  \/ v.t \in {"map", "arr", "oid"}
  \/ v.t = "str" /\ v.s # <<>>
  \/ v.t = "num" /\ v.s # <<"0">>

\* key === '_id' || key.endsWith('Id') || key === 'userId'
IsIdKey(key) == key = KeyId \/ EndsWith(key, <<"I", "d">>) \/ key = KeyUserId

\* typeof value === 'string' && value.length === 24 under an identifier key
IsBareCandidate(key, value) == IsIdKey(key) /\ value.t = "str" /\ Len(value.s) = ObjectIdLen

\* A mapping restoreObjectIds hands to new ObjectId(obj.$oid)
IsWrapped(obj) == obj.t = "map" /\ Truthy(Lookup(obj.kv, KeyOid))

\* Mutant of RestoreEntry: every 24-character string is reconstructed, whatever its key.
RestoreEntryAnyKey(key, value, inner) ==
  IF value.t = "str" /\ Len(value.s) = ObjectIdLen
    THEN (IF IsObjectIdText(value.s) THEN Oid(value.s) ELSE value)
    ELSE inner

\* One iteration of `for (const [key, value] of Object.entries(obj))`: the new
\* value under key, `inner` being restoreObjectIds(value).
RestoreEntry(key, value, inner) ==
  IF IsBareCandidate(key, value)
    THEN (IF IsObjectIdText(value.s) THEN Oid(value.s) ELSE value)
    ELSE inner

RECURSIVE RestoreThrows(_)
\* restoreObjectIds(obj) throws: some new ObjectId(obj.$oid), which no try
\* encloses, is given a text that is no identifier.
RestoreThrows(obj) ==
  IF obj.t = "arr" THEN \E i \in 1..Len(obj.kv) : RestoreThrows(obj.kv[i][2])
  ELSE IF obj.t = "map"
    THEN IF IsWrapped(obj)
           THEN LET text == Lookup(obj.kv, KeyOid)
                IN ~(text.t = "str" /\ IsObjectIdText(text.s))
           ELSE \E i \in 1..Len(obj.kv) :
                  /\ ~IsBareCandidate(obj.kv[i][1], obj.kv[i][2])
                  /\ RestoreThrows(obj.kv[i][2])
  ELSE FALSE

RECURSIVE RestoreObjectIds(_)
\* The value restoreObjectIds(obj) returns when it does not throw.
RestoreObjectIds(obj) ==
  IF obj.t = "arr"
    THEN [obj EXCEPT !.kv = [i \in 1..Len(obj.kv) |-> <<<<>>, RestoreObjectIds(obj.kv[i][2])>>]]
  ELSE IF obj.t = "map"
    THEN IF IsWrapped(obj)
           THEN Oid(Lookup(obj.kv, KeyOid).s)
           ELSE [obj EXCEPT !.kv =
                   [i \in 1..Len(obj.kv) |->
                      <<obj.kv[i][1],
                        RestoreEntry(obj.kv[i][1], obj.kv[i][2],
                                     RestoreObjectIds(obj.kv[i][2]))>>]]
  ELSE obj

HexA == [i \in 1..ObjectIdLen |-> "a"]
HexB == [i \in 1..ObjectIdLen |-> "b"]
TextAna == <<"A", "n", "a">>

DocAna == Map(<< <<KeyId, Oid(HexA)>>, <<KeyName, Str(TextAna)>> >>)
DocPost == Map(<< <<KeyId, Oid(HexB)>>, <<KeyOwner, Oid(HexA)>> >>)

\* The collections of a database, in the order listCollections enumerates them.
CollectionOrder == <<"A", "B", "C">>
CollectionNames == {CollectionOrder[i] : i \in 1..Len(CollectionOrder)}

SelectSeq2(seq, S) == SelectSeq(seq, LAMBDA x : x \in S)

\* Source databases of the backup program.
SourceDatabases ==
  { [c \in {} |-> <<>>],
    [c \in {"A"} |-> <<DocAna>>],
    [c \in {"A", "B"} |-> IF c = "A" THEN <<DocAna>> ELSE <<DocPost>>] }

(***************************************************************************)
(* The storage tree below BACKUP_DIR: a function from a path (the sequence *)
(* of names below the root) to its entry.                                  *)
(***************************************************************************)
NoContent == [complete |-> FALSE, timestamp |-> <<0, 0>>, collections |-> <<>>]
DirEntry == [kind |-> "dir", mtime |-> <<0, 0>>, content |-> NoContent]
FileEntry(mtime, content) == [kind |-> "file", mtime |-> mtime, content |-> content]

Root == <<>>
EmptyTree == (Root :> DirEntry)

Parent(p) == SubSeq(p, 1, Len(p) - 1)
Prefixes(p) == {SubSeq(p, 1, n) : n \in 0..Len(p)}

\* fs.existsSync
Exists(tree, p) == p \in DOMAIN tree

\* fs.readdirSync(dir, { withFileTypes: true }): the entries of dir, each with
\* its type at the time of the call
ReadDir(tree, dir) ==
  {[name |-> p[Len(p)], isDirectory |-> tree[p].kind = "dir"] :
     p \in {q \in DOMAIN tree : Len(q) = Len(dir) + 1 /\ Parent(q) = dir}}

\* fs.mkdirSync(dir, { recursive: true })
MkdirRecursive(tree, dir) ==
  [p \in DOMAIN tree \cup Prefixes(dir) |-> IF p \in DOMAIN tree THEN tree[p] ELSE DirEntry]

\* fs.unlinkSync / fs.rmdirSync
Remove(tree, p) == [q \in DOMAIN tree \ {p} |-> tree[q]]

\* fs.writeFileSync(p, text) that ran to completion
WriteFile(tree, p, mtime, content) ==
  [q \in DOMAIN tree \cup {p} |-> IF q = p THEN FileEntry(mtime, content) ELSE tree[q]]

Files(tree) == {p \in DOMAIN tree : tree[p].kind = "file"}
Dirs(tree) == {p \in DOMAIN tree : tree[p].kind = "dir"}
IsArtifactName(name) == EndsWith(name, DotJson)
Artifacts(tree) == {p \in Files(tree) : IsArtifactName(p[Len(p)])}

(***************************************************************************)
(* The time zones the program may run in, and the instants a run starts at.*)
(***************************************************************************)
\* 2024-09-30T09:59:59Z, one second before an hour with two digits
StartSecs == (365 + 244 + 29) * SecondsPerDay + 9 * SecondsPerHour + 59 * 60 + 59
StartInstant == <<StartSecs, 999>>

ZoneFixed == [at |-> 0, before |-> 0, after |-> 0]
\* clocks go forward an hour at 2024-09-30T10:00:00Z
ZoneForward == [at |-> StartSecs + 1, before |-> 0, after |-> SecondsPerHour]
\* clocks go back an hour at 2024-09-30T10:00:00Z
ZoneBack == [at |-> StartSecs + 1, before |-> SecondsPerHour, after |-> 0]
Zones == {ZoneFixed, ZoneForward, ZoneBack}

(***************************************************************************)
(* Snapshot Namer.                                                         *)
(***************************************************************************)
Hashes == {HexString(n, 4) : n \in 0..(HashChoices - 1)}

\* The components of generateBackupPath's result below BACKUP_DIR.
BackupPathOf(z, at, hash) ==
  LET f == Fields(LocalSecs(z, at[1]))
      year == DecimalString(f.year)
      month == PadStart2(DecimalString(f.month))
      day == PadStart2(DecimalString(f.date))
      hours == PadStart2(DecimalString(f.hours))
      minutes == PadStart2(DecimalString(f.minutes))
      seconds == PadStart2(DecimalString(f.seconds))
      fileName == hours \o <<"_">> \o minutes \o <<"_">> \o seconds \o <<"_">> \o hash \o DotJson
  IN <<year, month, day, fileName>>

\* cutoffDate = new Date(); cutoffDate.setDate(cutoffDate.getDate() - daysToKeep)
CutoffDate(z, at, days) ==
  LET local == LocalSecs(z, at[1])
      f == Fields(local)
  IN <<UTCOfLocal(z, MakeLocal(f.year, f.month, f.date - days, local % SecondsPerDay)), at[2]>>

\* Mutant of IsOld: the comparison is not strict.
IsOldOrAtCutoff(mtime, cutoff) == ~Before(cutoff, mtime)

\* stats.mtime < cutoffDate
IsOld(mtime, cutoff) == Before(mtime, cutoff)

\* now + d
Later(at, d) ==
  LET ms == at[2] + d[2]
  IN <<at[1] + d[1] + (ms \div 1000), ms % 1000>>

\* How far the clock moves between two looks at it.
TickSteps == {<<0, 1>>, <<1, 0>>, <<SecondsPerDay, 0>>}

VARIABLES
  zone,        \* the time zone of the process
  daysToKeep,  \* DAYS_TO_KEEP
  now,         \* the clock
  fs,          \* the storage tree below BACKUP_DIR
  db,          \* the database: collection name -> documents
  pc,          \* where main() of the backup program is
  runs,        \* runs of the backup program started so far
  ticks,       \* clock advances so far
  cap,         \* createBackup's locals
  sw,          \* cleanOldBackups' locals
  fs0,         \* the storage tree when the current sweep began
  captures,    \* every path generateBackupPath returned, with its instant
  rpc,         \* where main() of the restore program is
  rs,          \* the restore program's locals
  db0,         \* the database when the restore program started
  codec        \* a tree, its parsed serialization, and what restoreObjectIds made of it

vars == <<zone, daysToKeep, now, fs, db, pc, runs, ticks, cap, sw, fs0, captures, rpc, rs, db0, codec>>

\* The variables of the backup program's run, of the restore program's run, and
\* of the codec on its own.
backupVars == <<zone, daysToKeep, now, pc, runs, ticks, cap, sw, fs0, captures>>
restoreVars == <<rpc, rs, db0>>

NoCodec == [stage |-> "none", original |-> Null, parsed |-> Null, restored |-> Null]
NoRestore ==
  [backups |-> <<>>, path |-> <<>>, collections |-> <<>>, todo |-> <<>>,
   pending |-> <<>>, error |-> FALSE, confirmed |-> FALSE, opened |-> FALSE,
   closes |-> 0, touched |-> {}, rejected |-> FALSE, failedIn |-> "", kept |-> <<>>,
   answer |-> <<>>, walk |-> <<>>, found |-> {}]

NoCapture ==
  [path |-> <<>>, todo |-> <<>>, collections |-> <<>>, error |-> FALSE,
   opened |-> FALSE, closes |-> 0, existed |-> FALSE]
NoSweep == [cutoff |-> <<0, 0>>, stack |-> <<>>, deleted |-> 0, error |-> FALSE, removed |-> {}]

Init ==
  /\ zone \in Zones
  /\ daysToKeep \in 1..MaxDaysToKeep
  /\ now = StartInstant
  /\ fs = EmptyTree
  /\ db \in SourceDatabases
  /\ pc = "start"
  /\ runs = 0
  /\ ticks = 0
  /\ cap = NoCapture
  /\ sw = NoSweep
  /\ fs0 = EmptyTree
  /\ captures = <<>>
  /\ rpc = "none"
  /\ rs = NoRestore
  /\ db0 = db
  /\ codec = NoCodec

\* Time passes: before a run starts, and while createBackup awaits the database.
Tick ==
  /\ pc \in {"start", "write"}
  /\ ticks < MaxTicks
  /\ \E d \in TickSteps : now' = Later(now, d)
  /\ ticks' = ticks + 1
  /\ UNCHANGED <<rpc, rs, db0, codec, zone, daysToKeep, fs, db, pc, runs, cap, sw, fs0, captures>>

\* main() calls createBackup(): generateBackupPath() and new MongoClient, up to
\* the await of client.connect().
GenerateBackupPath ==
  /\ pc = "start"
  /\ runs < MaxRuns
  /\ \E hash \in Hashes :
       LET backupPath == BackupPathOf(zone, now, hash)
       IN /\ fs' = MkdirRecursive(fs, Parent(backupPath))
          /\ cap' = [NoCapture EXCEPT !.path = backupPath, !.existed = Exists(fs, backupPath)]
          /\ captures' = Append(captures, [at |-> now, path |-> backupPath])
  /\ runs' = runs + 1
  /\ pc' = "connect"
  /\ UNCHANGED <<rpc, rs, db0, codec, zone, daysToKeep, now, db, ticks, sw, fs0>>

\* await client.connect()
Connect ==
  /\ pc = "connect"
  /\ \/ /\ cap' = [cap EXCEPT !.opened = TRUE]
        /\ pc' = "list"
     \/ /\ cap' = [cap EXCEPT !.error = TRUE]
        /\ pc' = "close"
  /\ UNCHANGED <<rpc, rs, db0, codec, zone, daysToKeep, now, fs, db, runs, ticks, sw, fs0, captures>>

\* await db.listCollections().toArray()
ListCollections ==
  /\ pc = "list"
  /\ \/ LET names == SelectSeq2(CollectionOrder, DOMAIN db)
        IN /\ cap' = [cap EXCEPT !.todo = names]
           /\ pc' = IF names = <<>> THEN "write" ELSE "find"
     \/ /\ cap' = [cap EXCEPT !.error = TRUE]
        /\ pc' = "close"
  /\ UNCHANGED <<rpc, rs, db0, codec, zone, daysToKeep, now, fs, db, runs, ticks, sw, fs0, captures>>

\* await collection.find({}).toArray() for the next collection
Find ==
  /\ pc = "find"
  /\ \/ LET collName == Head(cap.todo)
            documents == db[collName]
        IN /\ cap' = [cap EXCEPT
                        !.todo = Tail(@),
                        !.collections = Append(@, [name |-> collName,
                                                   count |-> Len(documents),
                                                   documents |-> documents])]
           /\ pc' = IF Tail(cap.todo) = <<>> THEN "write" ELSE "find"
     \/ /\ cap' = [cap EXCEPT !.error = TRUE]
        /\ pc' = "close"
  /\ UNCHANGED <<rpc, rs, db0, codec, zone, daysToKeep, now, fs, db, runs, ticks, sw, fs0, captures>>

\* JSON.stringify(backup, null, 2), as the restore program parses it back
Stringify(timestamp, collections) ==
  [complete |-> TRUE,
   timestamp |-> timestamp,
   collections |-> [i \in 1..Len(collections) |->
                      [collections[i] EXCEPT
                         !.documents = [j \in 1..Len(@) |-> ToJSON(@[j])]]]]

\* fs.writeFileSync(backupPath, text): it completes, or fails before the file
\* is created (open fails), or fails after the file was created or truncated
\* (a write fails, e.g. the disk is full) and leaves the bytes written so far.
WriteBackup ==
  /\ pc = "write"
  /\ \/ /\ fs' = WriteFile(fs, cap.path, now, Stringify(now, cap.collections))
        /\ cap' = cap
     \/ /\ fs' = fs
        /\ cap' = [cap EXCEPT !.error = TRUE]
     \/ /\ fs' = WriteFile(fs, cap.path, now, NoContent)
        /\ cap' = [cap EXCEPT !.error = TRUE]
  /\ pc' = "close"
  /\ UNCHANGED <<rpc, rs, db0, codec, zone, daysToKeep, now, db, runs, ticks, sw, fs0, captures>>

\* Mutant of Close: main() goes on to cleanOldBackups even when createBackup threw.
CloseThenSweepAnyway ==
  /\ pc = "close"
  /\ cap' = [cap EXCEPT !.closes = @ + 1]
  /\ pc' = "sweep"
  /\ UNCHANGED <<rpc, rs, db0, codec, zone, daysToKeep, now, fs, db, runs, ticks, sw, fs0, captures>>

\* Mutant of Close: the client is closed only when nothing was thrown.
CloseOnSuccessOnly ==
  /\ pc = "close"
  /\ cap' = [cap EXCEPT !.closes = IF cap.error THEN @ ELSE @ + 1]
  /\ pc' = IF cap.error THEN "failed" ELSE "sweep"
  /\ UNCHANGED <<rpc, rs, db0, codec, zone, daysToKeep, now, fs, db, runs, ticks, sw, fs0, captures>>

\* finally { await client.close() }, then createBackup returns or throws:
\* main() goes on to cleanOldBackups, or catches and exits non-zero.
Close ==
  /\ pc = "close"
  /\ cap' = [cap EXCEPT !.closes = @ + 1]
  /\ pc' = IF cap.error THEN "failed" ELSE "sweep"
  /\ UNCHANGED <<rpc, rs, db0, codec, zone, daysToKeep, now, fs, db, runs, ticks, sw, fs0, captures>>

(***************************************************************************)
(* Retention Sweeper: cleanOldBackups, one step per entry processDirectory *)
(* visits.  A frame of sw.stack is one activation of processDirectory.     *)
(***************************************************************************)
Frame(tree, dir) == [dir |-> dir, entries |-> ReadDir(tree, dir)]

\* cleanOldBackups begins: the cutoff, deletedCount = 0, processDirectory(BACKUP_DIR)
BeginSweep ==
  /\ sw' = [cutoff |-> CutoffDate(zone, now, daysToKeep),
            stack |-> IF Exists(fs, Root) THEN <<Frame(fs, Root)>> ELSE <<>>,
            deleted |-> 0, error |-> FALSE, removed |-> {}]
  /\ fs0' = fs

Top == sw.stack[Len(sw.stack)]
ReplaceTop(frame) == [sw.stack EXCEPT ![Len(sw.stack)] = frame]

\* One iteration of `for (const entry of entries)`, up to the recursive call
\* for a directory.
VisitEntry(entry) ==
  LET fullPath == Append(Top.dir, entry.name)
      rest == [Top EXCEPT !.entries = @ \ {entry}]
  IN IF entry.isDirectory
       THEN /\ sw' = [sw EXCEPT !.stack = Append(ReplaceTop(rest), Frame(fs, fullPath))]
            /\ fs' = fs
       ELSE IF IsArtifactName(entry.name) /\ IsOld(fs[fullPath].mtime, sw.cutoff)
         THEN /\ fs' = Remove(fs, fullPath)
              /\ sw' = [sw EXCEPT !.stack = ReplaceTop(rest),
                                  !.deleted = @ + 1,
                                  !.removed = @ \cup {fullPath}]
         ELSE /\ fs' = fs
              /\ sw' = [sw EXCEPT !.stack = ReplaceTop(rest)]

\* Mutant of ReturnFromDirectory: emptiness is judged by the listing taken
\* before the pass, so a directory the pass emptied is kept.
ReturnJudgingOldListing ==
  /\ fs' = IF ReadDir(fs0, Top.dir) = {} THEN Remove(fs, Top.dir) ELSE fs
  /\ sw' = [sw EXCEPT !.stack = SubSeq(@, 1, Len(@) - 1),
                      !.removed = IF ReadDir(fs0, Top.dir) = {} THEN @ \cup {Top.dir} ELSE @]

\* Mutant of ReturnFromDirectory: an empty directory is never removed.
ReturnKeepingDirectory ==
  /\ fs' = fs
  /\ sw' = [sw EXCEPT !.stack = SubSeq(@, 1, Len(@) - 1)]

\* processDirectory(fullPath) returned: remove the directory if it is empty now.
ReturnFromDirectory ==
  /\ fs' = IF ReadDir(fs, Top.dir) = {} THEN Remove(fs, Top.dir) ELSE fs
  /\ sw' = [sw EXCEPT !.stack = SubSeq(@, 1, Len(@) - 1),
                      !.removed = IF ReadDir(fs, Top.dir) = {} THEN @ \cup {Top.dir} ELSE @]

\* main() reaches cleanOldBackups(DAYS_TO_KEEP)
StartSweep ==
  /\ pc = "sweep"
  /\ BeginSweep
  /\ pc' = "sweeping"
  /\ UNCHANGED <<rpc, rs, db0, codec, zone, daysToKeep, now, fs, db, runs, ticks, cap, captures>>

SweepEntry ==
  /\ pc = "sweeping"
  /\ sw.stack # <<>>
  /\ \E entry \in Top.entries : VisitEntry(entry)
  /\ UNCHANGED <<rpc, rs, db0, codec, zone, daysToKeep, now, db, pc, runs, ticks, cap, fs0, captures>>

SweepReturn ==
  /\ pc = "sweeping"
  /\ Len(sw.stack) > 1
  /\ Top.entries = {}
  /\ ReturnFromDirectory
  /\ UNCHANGED <<rpc, rs, db0, codec, zone, daysToKeep, now, db, pc, runs, ticks, cap, fs0, captures>>

\* processDirectory(BACKUP_DIR) returned: the count is logged, getBackupStats
\* reads the tree, main() reports completion.
SweepDone ==
  /\ pc = "sweeping"
  /\ Len(sw.stack) = 1
  /\ Top.entries = {}
  /\ sw' = [sw EXCEPT !.stack = <<>>]
  /\ pc' = "completed"
  /\ UNCHANGED <<rpc, rs, db0, codec, zone, daysToKeep, now, fs, db, runs, ticks, cap, fs0, captures>>

\* A filesystem call of the sweep throws (permission denied, I/O error): the
\* catch of cleanOldBackups logs it and main() goes on.
SweepError ==
  /\ pc = "sweeping"
  /\ sw.stack # <<>>
  /\ sw' = [sw EXCEPT !.stack = <<>>, !.error = TRUE]
  /\ pc' = "completed"
  /\ UNCHANGED <<rpc, rs, db0, codec, zone, daysToKeep, now, fs, db, runs, ticks, cap, fs0, captures>>

\* The process has ended; the scheduler starts the program again.
NextRun ==
  /\ pc \in {"completed", "failed"}
  /\ runs < MaxRuns
  /\ pc' = "start"
  /\ UNCHANGED <<rpc, rs, db0, codec, zone, daysToKeep, now, fs, db, runs, ticks, cap, sw, fs0, captures>>

Next ==
  \/ Tick
  \/ GenerateBackupPath
  \/ Connect
  \/ ListCollections
  \/ Find
  \/ WriteBackup
  \/ Close
  \/ StartSweep
  \/ SweepEntry
  \/ SweepReturn
  \/ SweepDone
  \/ SweepError
  \/ NextRun

Spec == Init /\ [][Next]_vars
(***************************************************************************)
(* The sweep on its own, over storage trees with known modification times. *)
(***************************************************************************)
MaxFiles == 2

\* now - d
Earlier(at, d) ==
  LET ms == at[2] - d[2] + 1000
  IN <<at[1] - d[1] - 1 + (ms \div 1000), ms % 1000>>

Days(n) == <<n * SecondsPerDay, 0>>

\* The sweep runs at 2024-10-01T07:59:59.999Z, within a day of the zones' change.
SweepInstant == <<StartSecs + SecondsPerDay - 2 * SecondsPerHour, 999>>

\* Ages of the files of a tree: new, past every retention window, and at, just
\* under and just over a whole number of days.
Ages ==
  {<<0, 0>>, Days(MaxDaysToKeep + 1)}
    \cup UNION {{Earlier(Days(n), <<0, 1>>), Days(n), Later(Days(n), <<0, 1>>)} :
                  n \in 1..MaxDaysToKeep}

Name2024 == <<"2", "0", "2", "4">>
Name09 == <<"0", "9">>
Name10 == <<"1", "0">>
Name29 == <<"2", "9">>
Name30 == <<"3", "0">>
NameA == <<"0", "9", "_", "0", "0", "_", "0", "0", "_", "0", "0", "0", "0", "0", "0", "0", "a">> \o DotJson
NameB == <<"1", "0", "_", "0", "0", "_", "0", "0", "_", "0", "0", "0", "0", "0", "0", "0", "b">> \o DotJson
NameX == <<"x">> \o DotJson
NameD == <<"d">> \o DotJson
NameE == <<"e">> \o DotJson
NameNotes == <<"n", "o", "t", "e", "s", ".", "t", "x", "t">>

\* Where a tree may hold an artifact: in two day directories, directly under
\* the root, and inside a directory whose own name ends in .json.
ArtifactSlots ==
  { <<Name2024, Name09, Name29, NameA>>,
    <<Name2024, Name09, Name30, NameB>>,
    <<NameX>>,
    <<Name2024, Name09, Name29, NameD, NameE>> }
\* A file that is no artifact, and a month directory with nothing in it.
NotesPath == <<Name2024, Name09, Name29, NameNotes>>
EmptyMonth == <<Name2024, Name10>>

TreeOf(mtimes, notes, emptyDir) ==
  LET files == DOMAIN mtimes \cup (IF notes THEN {NotesPath} ELSE {})
      dirs == UNION {Prefixes(Parent(p)) : p \in files \cup {<<>>}}
                \cup (IF emptyDir THEN Prefixes(EmptyMonth) ELSE {})
  IN [p \in files \cup dirs |->
        IF p \in dirs THEN DirEntry
        ELSE IF p = NotesPath
          THEN FileEntry(Earlier(SweepInstant, Days(MaxDaysToKeep + 1)), NoContent)
          ELSE FileEntry(Earlier(SweepInstant, mtimes[p]), NoContent)]

Trees ==
  {TreeOf(m, n, e) :
     m \in UNION {[S -> Ages] : S \in {T \in SUBSET ArtifactSlots : Cardinality(T) <= MaxFiles}},
     n \in BOOLEAN, e \in BOOLEAN}

InitSweep ==
  /\ zone \in Zones
  /\ daysToKeep \in 1..MaxDaysToKeep
  /\ now = SweepInstant
  /\ fs \in Trees
  /\ db = [c \in {} |-> <<>>]
  /\ pc = "sweep"
  /\ runs = MaxRuns
  /\ ticks = MaxTicks
  /\ cap = NoCapture
  /\ sw = NoSweep
  /\ fs0 = fs
  /\ captures = <<>>
  /\ rpc = "none"
  /\ rs = NoRestore
  /\ db0 = db
  /\ codec = NoCodec

NextSweep ==
  \/ StartSweep
  \/ SweepEntry
  \/ SweepReturn
  \/ SweepDone
  \/ SweepError

SpecSweep == InitSweep /\ [][NextSweep]_vars
(***************************************************************************)
(* Properties of the backup program.                                       *)
(***************************************************************************)
\* createBackup has thrown (the connection is closed, main() exits non-zero).
CaptureThrew == pc = "failed"

\* A file's content is a whole artifact holding every collection of the database.
ReadEvery(content) ==
  /\ content.complete
  /\ {content.collections[i].name : i \in 1..Len(content.collections)} = DOMAIN db

\* C1 (as claimed): when createBackup throws, whichever step failed (connect,
\* listCollections, a find, or the write itself), no file exists at the path it
\* generated; and a file in the tree is always the whole artifact of a capture
\* that read every collection.
NoPartialArtifact ==
  /\ CaptureThrew => ~Exists(fs, cap.path)
  /\ \A p \in Files(fs) : ReadEvery(fs[p].content)

CapturePairs == {<<i, j>> \in (1..Len(captures)) \X (1..Len(captures)) : i # j}
PathString(i) == JoinPath(captures[i].path)
LocalSecond(i) == LocalSecs(zone, captures[i].at[1])

\* C6 (as claimed): of two captures, the one taken at the strictly earlier
\* instant (the wall clock not having gone back in between) has the
\* lexicographically smaller path, also when both instants lie within one second.
PathOrderFollowsInstants ==
  \A pair \in CapturePairs :
    (/\ Before(captures[pair[1]].at, captures[pair[2]].at)
     /\ LocalSecond(pair[1]) <= LocalSecond(pair[2]))
      => StrLess(PathString(pair[1]), PathString(pair[2]))

\* C6 (amended): of two captures, the one whose local wall-clock reading, taken
\* to the second, is strictly earlier has the lexicographically smaller path.
PathOrderFollowsSeconds ==
  \A pair \in CapturePairs :
    LocalSecond(pair[1]) < LocalSecond(pair[2])
      => StrLess(PathString(pair[1]), PathString(pair[2]))

\* C6 witness: two captures into the same day directory, a second or more apart.
TwoCapturesSecondsApart ==
  /\ Len(captures) = 2
  /\ LocalSecond(1) < LocalSecond(2)
  /\ Parent(captures[1].path) = Parent(captures[2].path)

\* C7 (as claimed): any two executions of createBackup generate different
\* paths, so no capture writes over the artifact of another.
PathsNeverCollide ==
  /\ \A pair \in CapturePairs : captures[pair[1]].path # captures[pair[2]].path
  /\ ~cap.existed

(***************************************************************************)
(* Properties of the sweep.                                                *)
(***************************************************************************)
\* cleanOldBackups has finished a pass that met no filesystem error.
SweptOk == pc = "completed" /\ ~sw.error

RemovedFiles == Files(fs0) \ Files(fs)

\* now - mtime > daysToKeep days of 24 hours
OlderThanDays(mtime) == Before(Later(mtime, Days(daysToKeep)), now)

\* C2 (as claimed): a pass deletes exactly the artifacts whose age is strictly
\* greater than N days of 24 hours, keeps an artifact aged exactly N days, and
\* counts what it deleted.
RetentionByAge ==
  SweptOk =>
    /\ RemovedFiles = {p \in Artifacts(fs0) : OlderThanDays(fs0[p].mtime)}
    /\ sw.deleted = Cardinality(RemovedFiles)

\* The UTC offset in force at the sweep, and at the same local wall-clock time
\* N calendar days before it.
OffsetNow == ZoneOffset(zone, now[1])
OffsetThen ==
  LET wall == now[1] + OffsetNow - daysToKeep * SecondsPerDay
  IN IF wall - zone.after >= zone.at /\ wall - zone.before >= zone.at
       THEN zone.after ELSE zone.before
\* N days of 24 hours before now, moved by the change of offset in between
WallClockCutoff == <<now[1] - daysToKeep * SecondsPerDay + OffsetNow - OffsetThen, now[2]>>

\* C2 (amended): a pass deletes exactly the artifacts modified strictly before
\* the cutoff, the sweep's local wall-clock time N calendar days earlier, which
\* is N days of 24 hours before now when the UTC offset is the same at both;
\* an artifact modified exactly at the cutoff is kept; the count is the number
\* of artifacts deleted.
RetentionByCutoff ==
  SweptOk =>
    /\ RemovedFiles = {p \in Artifacts(fs0) : Before(fs0[p].mtime, WallClockCutoff)}
    /\ sw.deleted = Cardinality(RemovedFiles)
    /\ OffsetNow = OffsetThen =>
         RemovedFiles = {p \in Artifacts(fs0) : OlderThanDays(fs0[p].mtime)}

\* C2 witness: a pass that deleted an artifact and kept one aged exactly N days.
BoundaryArtifactKept ==
  /\ SweptOk
  /\ sw.deleted > 0
  /\ \E p \in Artifacts(fs0) \cap DOMAIN fs : fs0[p].mtime = Earlier(now, Days(daysToKeep))

Below(dir, p) == Len(p) > Len(dir) /\ SubSeq(p, 1, Len(dir)) = dir

\* C8: after a pass, a directory below the root is still there exactly when it
\* still has an entry (so every directory the pass left empty, by its own or
\* its descendants' deletions, is gone, and none with an entry is); the root is
\* still there; and at every step each entry's parent directory exists.
EmptyDirectoriesReclaimed ==
  /\ \A p \in DOMAIN fs : p = Root \/ Parent(p) \in Dirs(fs)
  /\ SweptOk =>
       /\ Root \in Dirs(fs)
       /\ \A d \in Dirs(fs0) \ {Root} :
            Exists(fs, d) <=> \E p \in DOMAIN fs : Below(d, p)

\* C8 witness: the only artifact sat three directories deep; the pass deleted
\* it and then its day, month and year directories.
YearMonthDayReclaimed ==
  /\ SweptOk
  /\ sw.deleted = 1
  /\ \E p \in Artifacts(fs0) : Len(p) = 4 /\ Prefixes(Parent(p)) = Dirs(fs0)
  /\ DOMAIN fs = {Root}

\* C9 (as claimed): a pass that deletes no artifact leaves the set of
\* directories as it was.
NoFilesNoDirectories ==
  (SweptOk /\ sw.deleted = 0) => Dirs(fs) = Dirs(fs0)

\* C9 (amended): a pass that deletes no artifact removes exactly the
\* directories below the root that held no file at any depth when the pass
\* began, and leaves every file and every other directory.
NoFilesOnlyEmptyDirectories ==
  (SweptOk /\ sw.deleted = 0) =>
    /\ Files(fs) = Files(fs0)
    /\ Dirs(fs) = {d \in Dirs(fs0) : d = Root \/ \E p \in Files(fs0) : Below(d, p)}

\* C9 witness: a pass deleted no artifact and removed a directory.
EmptyDirectoryRemovedAlone ==
  /\ SweptOk
  /\ sw.deleted = 0
  /\ Dirs(fs) # Dirs(fs0)
(***************************************************************************)
(* Identifier Codec on its own: a document tree is serialized as a capture *)
(* does, parsed, and passed through restoreObjectIds.                      *)
(***************************************************************************)
MaxDepth == 2

NotHex24 == [i \in 1..ObjectIdLen |-> "z"]
TextBad == <<"x", "y", "z">>

\* Scalars of a document, and $oid-wrapped identifiers, well-formed and not.
Leaves ==
  {Oid(HexA), Str(HexA), Str(NotHex24), Str(TextAna), Null,
   Map(<< <<KeyOid, Str(HexA)>> >>), Map(<< <<KeyOid, Str(TextBad)>> >>),
   Map(<< <<KeyOid, Str(<<>>)>> >>)}
TreeKeys == {KeyId, KeyUserId, KeyOwner}

RECURSIVE TreesOfDepth(_)
TreesOfDepth(n) ==
  IF n = 0 THEN Leaves
  ELSE LET inner == TreesOfDepth(n - 1)
       IN inner
            \cup {Map(<< <<k, v>> >>) : k \in TreeKeys, v \in inner}
            \cup {Arr(<<v>>) : v \in inner}

\* Documents: mappings of the keys above, and the two documents of the databases.
DocumentTrees ==
  {tree \in TreesOfDepth(MaxDepth) : tree.t = "map" /\ tree \notin Leaves}
    \cup {DocAna, DocPost}

\* JSON.stringify at capture, JSON.parse at restore
SerializeTree ==
  /\ codec.stage = "original"
  /\ codec' = [codec EXCEPT !.stage = "parsed", !.parsed = ToJSON(codec.original)]
  /\ UNCHANGED <<backupVars, restoreVars, fs, db>>

\* restoreObjectIds(parsed) returns, or throws
DecodeTree ==
  /\ codec.stage = "parsed"
  /\ codec' = IF RestoreThrows(codec.parsed)
                THEN [codec EXCEPT !.stage = "threw"]
                ELSE [codec EXCEPT !.stage = "restored",
                                   !.restored = RestoreObjectIds(codec.parsed)]
  /\ UNCHANGED <<backupVars, restoreVars, fs, db>>

InitCodec ==
  /\ zone = ZoneFixed
  /\ daysToKeep = 1
  /\ now = StartInstant
  /\ fs = EmptyTree
  /\ db = [c \in {} |-> <<>>]
  /\ pc = "none"
  /\ runs = 0
  /\ ticks = 0
  /\ cap = NoCapture
  /\ sw = NoSweep
  /\ fs0 = EmptyTree
  /\ captures = <<>>
  /\ rpc = "none"
  /\ rs = NoRestore
  /\ db0 = db
  /\ codec \in {[NoCodec EXCEPT !.stage = "original", !.original = tree] : tree \in DocumentTrees}

NextCodec ==
  \/ SerializeTree
  \/ DecodeTree

SpecCodec == InitCodec /\ [][NextCodec]_vars

(***************************************************************************)
(* Properties of the codec.                                                *)
(***************************************************************************)
RECURSIVE ContainsIdentifier(_)
ContainsIdentifier(tree) ==
  \/ tree.t = "oid"
  \/ tree.t \in {"map", "arr"} /\ \E i \in 1..Len(tree.kv) : ContainsIdentifier(tree.kv[i][2])

RECURSIVE IdentifiersRestored(_, _)
\* Every Typed Identifier of `original` is the same Typed Identifier at the
\* same place of `restored`.
IdentifiersRestored(original, restored) ==
  IF original.t = "oid" THEN restored = original
  ELSE IF ContainsIdentifier(original)
    THEN /\ restored.t = original.t
         /\ Len(restored.kv) = Len(original.kv)
         /\ \A i \in 1..Len(original.kv) :
              IdentifiersRestored(original.kv[i][2], restored.kv[i][2])
  ELSE TRUE

\* C4 (as claimed): after capture's serialization, parsing and restoreObjectIds,
\* every value that was a Typed Identifier is again a native Typed Identifier
\* with the same hex value, at whichever key or depth it sat.
IdentifierRoundTrip ==
  codec.stage = "restored" => IdentifiersRestored(codec.original, codec.restored)

RECURSIVE RestoredByKey(_, _, _, _)
\* Position by position: a Typed Identifier that sat directly under a key equal
\* to _id or ending in Id is native again with the same hex value; one that sat
\* under any other key, or in an array, is the bare hex string the capture
\* wrote; a parsed mapping with a well-formed $oid is native at any key.
RestoredByKey(key, original, parsed, restored) ==
  IF original.t = "oid"
    THEN /\ parsed = Str(original.s)
         /\ restored = (IF IsIdKey(key) THEN original ELSE Str(original.s))
  ELSE IF IsWrapped(parsed)
    THEN restored = Oid(Lookup(parsed.kv, KeyOid).s)
  ELSE IF original.t \in {"map", "arr"}
    THEN /\ restored.t = original.t
         /\ Len(restored.kv) = Len(original.kv)
         /\ \A i \in 1..Len(original.kv) :
              /\ restored.kv[i][1] = original.kv[i][1]
              /\ RestoredByKey(original.kv[i][1], original.kv[i][2],
                               parsed.kv[i][2], restored.kv[i][2])
  ELSE TRUE

\* C4 (amended): a capture writes every Typed Identifier as its bare 24-hex
\* string, never $oid-wrapped; restoreObjectIds makes it native again, with the
\* same hex value, exactly where it sat directly under a key equal to _id or
\* ending in Id, at any depth, and leaves it a string under any other key and
\* in arrays; a $oid-wrapped identifier in a parsed tree is made native at any
\* key and depth.
IdentifierRoundTripByKey ==
  codec.stage = "restored" =>
    RestoredByKey(<<>>, codec.original, codec.parsed, codec.restored)

\* C4 witness: an identifier nested under userId inside another mapping came
\* back native.
NestedIdentifierRestored ==
  /\ codec.stage = "restored"
  /\ codec.original = Map(<< <<KeyOwner, Map(<< <<KeyUserId, Oid(HexA)>> >>)>> >>)
  /\ codec.restored = codec.original

RECURSIVE MalformedUnchanged(_, _)
\* Every value of `parsed` recognised as a serialized identifier whose text is
\* no identifier is the same value in `restored`.
MalformedUnchanged(parsed, restored) ==
  IF parsed.t = "map" /\ \E i \in 1..Len(parsed.kv) : parsed.kv[i][1] = KeyOid
    THEN LET text == Lookup(parsed.kv, KeyOid)
         IN (text.t = "str" /\ IsObjectIdText(text.s)) \/ restored = parsed
  ELSE IF parsed.t \in {"map", "arr"}
    THEN /\ restored.t = parsed.t
         /\ Len(restored.kv) = Len(parsed.kv)
         /\ \A i \in 1..Len(parsed.kv) :
              IF IsBareCandidate(parsed.kv[i][1], parsed.kv[i][2])
                   /\ ~IsObjectIdText(parsed.kv[i][2].s)
                THEN restored.kv[i][2] = parsed.kv[i][2]
                ELSE MalformedUnchanged(parsed.kv[i][2], restored.kv[i][2])
  ELSE TRUE

\* C5 (as claimed): restoreObjectIds never throws, and a value recognised as a
\* serialized identifier (a mapping with a $oid key, or a 24-character string
\* under a key equal to _id or ending in Id) whose text is no valid identifier
\* comes back unchanged.
MalformedIdentifierAbsorbed ==
  /\ codec.stage # "threw"
  /\ codec.stage = "restored" => MalformedUnchanged(codec.parsed, codec.restored)

(***************************************************************************)
(* The restore program: catalog, selection, confirmation, restore.         *)
(***************************************************************************)
RECURSIVE SortDescending(_)
\* Array.prototype.sort().reverse() of a set of paths
SortDescending(paths) ==
  IF paths = {} THEN <<>>
  ELSE LET last == CHOOSE p \in paths :
                     \A q \in paths \ {p} : StrLess(JoinPath(q), JoinPath(p))
       IN <<last>> \o SortDescending(paths \ {last})

\* listBackups(): every file below the root whose name ends in .json, newest
\* path first
ListBackups(tree) == SortDescending(Artifacts(tree))

DecimalDigits == {DigitChars[i] : i \in 1..Len(DigitChars)}

RECURSIVE DigitsValue(_, _)
\* parseInt reads the leading decimal digits of the text
DigitsValue(text, acc) ==
  IF text = <<>> \/ Head(text) \notin DecimalDigits
    THEN acc
    ELSE DigitsValue(Tail(text), 10 * acc + (CharCode[Head(text)] - CharCode["0"]))

\* parseInt(answer) - 1; NaN is -1 here, which the range check rejects like NaN
ParseIndex(answer) ==
  IF answer = <<>> \/ Head(answer) \notin DecimalDigits
    THEN -1
    ELSE DigitsValue(answer, 0) - 1

\* answer.toLowerCase() === letter
IsLetter(answer, lower, upper) == answer = <<lower>> \/ answer = <<upper>>

\* What the user may type at the two prompts.
SelectionAnswers ==
  {<<"q">>, <<"Q">>, <<"x">>, <<>>, <<"0">>, <<"1">>, <<"2">>, <<"3">>, <<"1", "x">>}
ConfirmAnswers == {<<"s">>, <<"S">>, <<"n">>, <<>>}

\* Mutant of DeleteAll: the whole database is emptied.
DeleteEveryCollection(database, name) ==
  [c \in DOMAIN database \cup {name} |-> <<>>]

\* collection.deleteMany({}) on collection `name`
DeleteAll(database, name) ==
  [c \in DOMAIN database \cup {name} |-> IF c = name THEN <<>> ELSE database[c]]

\* The documents of `docs` the server accepts, `rejected` being the positions
\* it refuses; an unordered insertMany goes on past a refusal.
Accepted(docs, rejected) ==
  LET keep(i) == i \notin rejected
      RECURSIVE Pick(_)
      Pick(i) == IF i > Len(docs) THEN <<>>
                 ELSE (IF keep(i) THEN <<docs[i]>> ELSE <<>>) \o Pick(i + 1)
  IN Pick(1)

\* collection.insertMany(docs, { ordered: false }) as far as the database goes
InsertInto(database, name, docs) ==
  [c \in DOMAIN database \cup {name} |->
     IF c = name THEN (IF name \in DOMAIN database THEN database[name] ELSE <<>>) \o docs
     ELSE database[c]]

\* selectBackup(): the catalog is listed and the user answers the prompt; then
\* restoreBackup reads and parses the chosen file, up to its confirmation prompt.
SelectBackup ==
  /\ rpc = "select"
  /\ LET backups == ListBackups(fs)
     IN IF backups = <<>>
          THEN /\ rpc' = "ended"
               /\ rs' = rs
          ELSE \E answer \in SelectionAnswers :
                 LET index == ParseIndex(answer)
                 IN IF IsLetter(answer, "q", "Q") \/ index < 0 \/ index >= Len(backups)
                      THEN /\ rpc' = "ended"
                           /\ rs' = [rs EXCEPT !.backups = backups, !.answer = answer]
                      ELSE IF ~fs[backups[index + 1]].content.complete
                        THEN \* JSON.parse throws; main() logs the error
                             /\ rpc' = "ended"
                             /\ rs' = [rs EXCEPT !.backups = backups,
                                                 !.answer = answer,
                                                 !.path = backups[index + 1],
                                                 !.error = TRUE]
                        ELSE /\ rpc' = "confirm"
                             /\ rs' = [rs EXCEPT
                                         !.backups = backups,
                                         !.answer = answer,
                                         !.path = backups[index + 1],
                                         !.collections = fs[backups[index + 1]].content.collections]
  /\ UNCHANGED <<backupVars, fs, db, db0, codec>>

\* The user answers the confirmation prompt.
Confirm ==
  /\ rpc = "confirm"
  /\ \E answer \in ConfirmAnswers :
       IF IsLetter(answer, "s", "S")
         THEN /\ rpc' = "connect"
              /\ rs' = [rs EXCEPT !.confirmed = TRUE, !.todo = rs.collections]
         ELSE /\ rpc' = "ended"
              /\ rs' = rs
  /\ UNCHANGED <<backupVars, fs, db, db0, codec>>

\* await client.connect()
RestoreConnect ==
  /\ rpc = "connect"
  /\ \/ /\ rs' = [rs EXCEPT !.opened = TRUE]
        /\ rpc' = IF rs.todo = <<>> THEN "close" ELSE "delete"
     \/ /\ rs' = [rs EXCEPT !.error = TRUE]
        /\ rpc' = "close"
  /\ UNCHANGED <<backupVars, fs, db, db0, codec>>

\* await collection.deleteMany({}) for the next collection of the artifact, then
\* restoreObjectIds on its documents, up to the await of insertMany.
DeleteMany ==
  /\ rpc = "delete"
  /\ LET data == Head(rs.todo)
     IN \/ /\ db' = DeleteAll(db, data.name)
           /\ IF data.count > 0
                THEN IF \E i \in 1..Len(data.documents) : RestoreThrows(data.documents[i])
                       THEN /\ rs' = [rs EXCEPT !.touched = @ \cup {data.name}, !.error = TRUE]
                            /\ rpc' = "close"
                       ELSE /\ rs' = [rs EXCEPT
                                        !.touched = @ \cup {data.name},
                                        !.pending = [i \in 1..Len(data.documents) |->
                                                       RestoreObjectIds(data.documents[i])]]
                            /\ rpc' = "insert"
                ELSE /\ rs' = [rs EXCEPT !.touched = @ \cup {data.name}, !.todo = Tail(@)]
                     /\ rpc' = IF Tail(rs.todo) = <<>> THEN "close" ELSE "delete"
        \/ /\ db' = db
           /\ rs' = [rs EXCEPT !.touched = @ \cup {data.name}, !.error = TRUE]
           /\ rpc' = "close"
  /\ UNCHANGED <<backupVars, fs, db0, codec>>

\* await collection.insertMany(documentsToInsert, { ordered: false }): every
\* document is inserted; or the server refuses some, inserts the others and the
\* driver throws its bulk-write error; or the connection fails.
InsertMany ==
  /\ rpc = "insert"
  /\ LET name == Head(rs.todo).name
     IN \/ /\ db' = InsertInto(db, name, rs.pending)
           /\ rs' = [rs EXCEPT !.todo = Tail(@), !.pending = <<>>]
           /\ rpc' = IF Tail(rs.todo) = <<>> THEN "close" ELSE "delete"
        \/ \E rejected \in SUBSET (1..Len(rs.pending)) \ {{}} :
             /\ db' = InsertInto(db, name, Accepted(rs.pending, rejected))
             /\ rs' = [rs EXCEPT !.error = TRUE, !.rejected = TRUE, !.failedIn = name,
                                 !.kept = Accepted(rs.pending, rejected)]
             /\ rpc' = "close"
        \/ /\ db' = db
           /\ rs' = [rs EXCEPT !.error = TRUE]
           /\ rpc' = "close"
  /\ UNCHANGED <<backupVars, fs, db0, codec>>

\* finally { await client.close() }, then restoreBackup returns or throws to
\* main(), which logs the error.
RestoreClose ==
  /\ rpc = "close"
  /\ rs' = [rs EXCEPT !.closes = @ + 1]
  /\ rpc' = IF rs.error THEN "failed" ELSE "done"
  /\ UNCHANGED <<backupVars, fs, db, db0, codec>>

\* The databases an artifact may have been captured from, and the live ones.
DocBea == Map(<< <<KeyId, Oid(HexB)>>, <<KeyName, Str(TextAna)>> >>)
DocOld == Map(<< <<KeyId, Oid(HexB)>>, <<KeyName, Str(TextBad)>> >>)
DocForeign == Map(<< <<KeyId, Map(<< <<KeyOid, Str(TextBad)>> >>)>> >>)

ArchivedDatabases ==
  { [c \in {"A", "B"} |-> IF c = "A" THEN <<DocAna, DocBea>> ELSE <<DocPost>>],
    [c \in {"A"} |-> <<>>],
    [c \in {} |-> <<>>] }

LiveDatabases ==
  { [c \in {"A", "B", "C"} |-> IF c = "C" THEN <<DocPost>> ELSE <<DocOld>>],
    [c \in {"A"} |-> <<DocAna>>],
    [c \in {} |-> <<>>] }

\* backup.collections as createBackup builds it from a database
CollectionsOf(database) ==
  LET names == SelectSeq2(CollectionOrder, DOMAIN database)
  IN [i \in 1..Len(names) |->
        [name |-> names[i], count |-> Len(database[names[i]]), documents |-> database[names[i]]]]

\* What a .json file of the storage tree may hold: an artifact createBackup
\* wrote, the remains of a write that failed, or an artifact from elsewhere
\* with a $oid that is no identifier.
ArtifactContents ==
  {Stringify(StartInstant, CollectionsOf(database)) : database \in ArchivedDatabases}
    \cup {NoContent}
    \cup {[complete |-> TRUE, timestamp |-> StartInstant,
           collections |-> <<[name |-> "A", count |-> 1, documents |-> <<DocForeign>>]>>]}

RestoreSlots == {<<Name2024, Name09, Name29, NameA>>, <<Name2024, Name09, Name30, NameB>>}

RestoreTrees ==
  {[p \in UNION {Prefixes(q) : q \in DOMAIN held \cup {<<>>}} |->
      IF p \in DOMAIN held THEN FileEntry(StartInstant, held[p]) ELSE DirEntry] :
     held \in UNION {[S -> ArtifactContents] : S \in SUBSET RestoreSlots}}

InitRestore ==
  /\ zone = ZoneFixed
  /\ daysToKeep = 1
  /\ now = StartInstant
  /\ fs \in RestoreTrees
  /\ db \in LiveDatabases
  /\ pc = "none"
  /\ runs = 0
  /\ ticks = 0
  /\ cap = NoCapture
  /\ sw = NoSweep
  /\ fs0 = fs
  /\ captures = <<>>
  /\ rpc = "select"
  /\ rs = NoRestore
  /\ db0 = db
  /\ codec = NoCodec

NextRestore ==
  \/ SelectBackup
  \/ Confirm
  \/ RestoreConnect
  \/ DeleteMany
  \/ InsertMany
  \/ RestoreClose

SpecRestore == InitRestore /\ [][NextRestore]_vars

(***************************************************************************)
(* Properties of the restore.                                              *)
(***************************************************************************)
ArtifactNames == {rs.collections[i].name : i \in 1..Len(rs.collections)}
RestoredDocuments(i) ==
  [j \in 1..Len(rs.collections[i].documents) |-> RestoreObjectIds(rs.collections[i].documents[j])]

\* C3: a delete or an insert is only ever issued against a collection the
\* artifact names; and when a confirmed restore has completed without error,
\* each collection of the artifact holds exactly the artifact's documents
\* (identifiers reconstructed, none of its previous documents), and every other
\* collection of the live database holds the documents it held before.
PerCollectionOverwrite ==
  /\ rs.touched \subseteq ArtifactNames
  /\ rpc = "done" =>
       /\ DOMAIN db = DOMAIN db0 \cup ArtifactNames
       /\ \A i \in 1..Len(rs.collections) : db[rs.collections[i].name] = RestoredDocuments(i)
       /\ \A c \in DOMAIN db0 \ ArtifactNames : db[c] = db0[c]

\* C3 witness: an artifact of {A, B} was restored over a database of {A, B, C}
\* whose A held other documents; C holds what it held.
RestoredOverThreeCollections ==
  /\ rpc = "done"
  /\ ArtifactNames = {"A", "B"}
  /\ DOMAIN db0 = {"A", "B", "C"}
  /\ db["A"] # db0["A"]
  /\ db0["C"] # <<>>
  /\ db["C"] = db0["C"]

\* C10 (as claimed): when the server refuses a document of a batch, the other
\* documents of the batch are inserted, the failure is not escalated, and
\* restoreBackup goes on through the remaining collections and completes.
DocumentFailureTolerated ==
  rs.rejected =>
    /\ db[rs.failedIn] = rs.kept
    /\ ~rs.error
    /\ rpc \in {"done", "failed"} => (rpc = "done" /\ rs.touched = ArtifactNames)

\* The restore failed on the connection: it was confirmed and threw, and neither
\* a refused document nor an identifier that cannot be built was the cause.
FailedOnConnection ==
  /\ rpc = "failed"
  /\ rs.confirmed
  /\ ~rs.rejected
  /\ \A i \in 1..Len(rs.collections) :
       \A j \in 1..Len(rs.collections[i].documents) :
         ~RestoreThrows(rs.collections[i].documents[j])

\* Some collection of the artifact was emptied or replaced while another one
\* still holds the documents it held before the restore.
PartiallyRestored ==
  \E c \in ArtifactNames \cap DOMAIN db0 :
    \E d \in (ArtifactNames \cap DOMAIN db0) \ rs.touched :
      /\ db[c] # db0[c]
      /\ db[d] = db0[d]
      /\ db0[d] # <<>>

\* C11 (as claimed): when restoreBackup has failed on the connection, the live
\* database is not left with some of the artifact's collections deleted or
\* replaced and others still holding their documents from before the restore.
NoPartialRestoreAfterConnectionFailure == FailedOnConnection => ~PartiallyRestored

\* The selection prompt has been answered.
Answered == rpc # "select" /\ rs.backups # <<>>

\* The answer is a decimal number and nothing else.
Numeric(answer) ==
  answer # <<>> /\ \A i \in 1..Len(answer) : answer[i] \in DecimalDigits

\* The answer is the 1-based position of rs.path in the catalog shown.
ResolvedInRange ==
  /\ Numeric(rs.answer)
  /\ DigitsValue(rs.answer, 0) \in 1..Len(rs.backups)
  /\ rs.path = rs.backups[DigitsValue(rs.answer, 0)]
  /\ rs.path \in Artifacts(fs)

\* The run is at or past the point where a connection may be opened.
PastConfirmation == rpc \in {"connect", "delete", "insert", "close", "done", "failed"}

\* No connection, delete or insert without a selected artifact and the answer
\* 's' at the confirmation prompt; a run that ended before left the database
\* as it was.
ConfirmationPrecedesMutation ==
  /\ (PastConfirmation \/ rs.opened \/ rs.touched # {} \/ db # db0) =>
       (rs.confirmed /\ rs.path \in Artifacts(fs) /\ rs.path \in {rs.backups[i] : i \in 1..Len(rs.backups)})
  /\ rpc = "ended" => (db = db0 /\ ~rs.opened /\ rs.touched = {})

\* C12 (as claimed): no connection is opened and no delete or insert is issued
\* unless an in-range 1-based numeric selection was resolved to an artifact
\* path and the confirmation was answered 's'; an empty catalog, 'q', a
\* non-numeric or out-of-range selection, or any other confirmation answer ends
\* the run with the live database unchanged.
SelectionAndConfirmationFirst ==
  /\ ConfirmationPrecedesMutation
  /\ PastConfirmation => ResolvedInRange
  /\ (Answered /\ ~Numeric(rs.answer)) => (rpc = "ended" /\ db = db0)

(***************************************************************************)
(* The catalog listing of the restore program, one filesystem call at a    *)
(* time, beside a sweep of the backup program over the same tree.          *)
(***************************************************************************)
WalkTop == rs.walk[Len(rs.walk)]
WalkReplaceTop(frame) == [rs.walk EXCEPT ![Len(rs.walk)] = frame]

\* A call of getAllBackups(dir) that has not read its directory yet.
WalkFrame(dir) == [dir |-> dir, names |-> {}, read |-> FALSE]

\* listBackups(): the root exists, getAllBackups(backupDir) is called.
ListStart ==
  /\ rpc = "list"
  /\ IF Exists(fs, Root)
       THEN /\ rs' = [rs EXCEPT !.walk = <<WalkFrame(Root)>>]
            /\ rpc' = "listing"
       ELSE /\ rs' = rs
            /\ rpc' = "listed"
  /\ UNCHANGED <<backupVars, fs, db, db0, codec>>

\* const files = fs.readdirSync(dir): ENOENT when the directory is gone.
ListReadDir ==
  /\ rpc = "listing"
  /\ ~WalkTop.read
  /\ IF Exists(fs, WalkTop.dir)
       THEN /\ rs' = [rs EXCEPT !.walk = WalkReplaceTop(
                        [WalkTop EXCEPT !.read = TRUE,
                                        !.names = {e.name : e \in ReadDir(fs, WalkTop.dir)}])]
            /\ rpc' = "listing"
       ELSE /\ rs' = [rs EXCEPT !.error = TRUE]
            /\ rpc' = "listfailed"
  /\ UNCHANGED <<backupVars, fs, db, db0, codec>>

\* One iteration of files.forEach: fs.statSync(filePath), ENOENT when the entry
\* is gone; then the recursive call, or the push on fileList.
ListStat ==
  /\ rpc = "listing"
  /\ WalkTop.read
  /\ \E file \in WalkTop.names :
       LET filePath == Append(WalkTop.dir, file)
           rest == WalkReplaceTop([WalkTop EXCEPT !.names = @ \ {file}])
       IN IF ~Exists(fs, filePath)
            THEN /\ rs' = [rs EXCEPT !.error = TRUE]
                 /\ rpc' = "listfailed"
            ELSE /\ rpc' = "listing"
                 /\ rs' = IF fs[filePath].kind = "dir"
                            THEN [rs EXCEPT !.walk = Append(rest, WalkFrame(filePath))]
                          ELSE IF EndsWith(file, DotJson)
                            THEN [rs EXCEPT !.walk = rest, !.found = @ \cup {filePath}]
                          ELSE [rs EXCEPT !.walk = rest]
  /\ UNCHANGED <<backupVars, fs, db, db0, codec>>

\* getAllBackups returns fileList; the outermost return is followed by
\* .sort().reverse().
ListReturn ==
  /\ rpc = "listing"
  /\ WalkTop.read
  /\ WalkTop.names = {}
  /\ IF Len(rs.walk) = 1
       THEN /\ rs' = [rs EXCEPT !.walk = <<>>, !.backups = SortDescending(rs.found)]
            /\ rpc' = "listed"
       ELSE /\ rs' = [rs EXCEPT !.walk = SubSeq(@, 1, Len(@) - 1)]
            /\ rpc' = "listing"
  /\ UNCHANGED <<backupVars, fs, db, db0, codec>>

\* Trees for the two programs: artifacts in two day directories and under the
\* root, each new or past the retention window, with or without an empty month.
CatalogSlots ==
  {<<Name2024, Name09, Name29, NameA>>, <<Name2024, Name09, Name30, NameB>>, <<NameX>>}
CatalogTrees ==
  {TreeOf(mtimes, FALSE, emptyDir) :
     mtimes \in UNION {[S -> {<<0, 0>>, Days(MaxDaysToKeep + 1)}] : S \in SUBSET CatalogSlots},
     emptyDir \in BOOLEAN}

InitCatalog ==
  /\ zone = ZoneFixed
  /\ daysToKeep = 1
  /\ now = SweepInstant
  /\ fs \in CatalogTrees
  /\ db = [c \in {} |-> <<>>]
  /\ pc = "sweep"
  /\ runs = MaxRuns
  /\ ticks = MaxTicks
  /\ cap = NoCapture
  /\ sw = NoSweep
  /\ fs0 = fs
  /\ captures = <<>>
  /\ rpc = "list"
  /\ rs = NoRestore
  /\ db0 = db
  /\ codec = NoCodec

NextCatalog ==
  \/ StartSweep
  \/ SweepEntry
  \/ SweepReturn
  \/ SweepDone
  \/ ListStart
  \/ ListReadDir
  \/ ListStat
  \/ ListReturn

SpecCatalog == InitCatalog /\ [][NextCatalog]_vars

\* C13 (as claimed): whatever the interleaving of a catalog listing with a
\* sweep over the same tree, the listing does not fail, and once both have
\* finished the listing holds every artifact the sweep did not delete; the
\* sweep meets no error either.
ListingSafeBesideSweep ==
  /\ rpc # "listfailed"
  /\ ~sw.error
  /\ (rpc = "listed" /\ pc = "completed") => Artifacts(fs) \subseteq rs.found

(***************************************************************************)
(* One createBackup of the backup program and one run of the restore       *)
(* program, side by side on the same database and storage tree.            *)
(***************************************************************************)
InitRelease ==
  /\ zone = ZoneFixed
  /\ daysToKeep = 1
  /\ now = StartInstant
  /\ fs \in RestoreTrees
  /\ db \in LiveDatabases
  /\ pc = "start"
  /\ runs = MaxRuns - 1
  /\ ticks = MaxTicks
  /\ cap = NoCapture
  /\ sw = NoSweep
  /\ fs0 = fs
  /\ captures = <<>>
  /\ rpc = "select"
  /\ rs = NoRestore
  /\ db0 = db
  /\ codec = NoCodec

NextRelease ==
  \/ GenerateBackupPath
  \/ Connect
  \/ ListCollections
  \/ Find
  \/ WriteBackup
  \/ Close
  \/ SelectBackup
  \/ Confirm
  \/ RestoreConnect
  \/ DeleteMany
  \/ InsertMany
  \/ RestoreClose

SpecRelease == InitRelease /\ [][NextRelease]_vars

\* C14: client.close() has been called exactly once when createBackup has
\* returned or thrown, and when a confirmed restoreBackup has returned or
\* thrown, whichever call succeeded or failed; and not at all before that.
ConnectionReleasedOnce ==
  /\ cap.closes = IF pc \in {"sweep", "failed"} THEN 1 ELSE 0
  /\ rs.closes = IF rpc \in {"done", "failed"} THEN 1 ELSE 0
  /\ rs.confirmed => rpc # "ended"

\* C14 witness: createBackup threw on its file write and restoreBackup threw on
\* a refused document, each after one close of its client.
BothFailedBothReleased ==
  /\ pc = "failed"
  /\ cap.opened
  /\ cap.todo = <<>>
  /\ cap.closes = 1
  /\ rpc = "failed"
  /\ rs.rejected
  /\ rs.closes = 1

(***************************************************************************)
(* Properties of a whole run of the backup program.                        *)
(***************************************************************************)
\* The sweep of a run is reached only after its createBackup returned.
SweepAfterCapture ==
  pc \in {"sweep", "sweeping", "completed"} =>
    (~cap.error /\ cap.closes = 1 /\ cap.path \in Artifacts(fs) /\ fs[cap.path].content.complete)

\* When the run reports completion, its artifact and the year, month and day
\* directories above it exist.
OwnArtifactKept ==
  pc = "completed" =>
    /\ cap.path \in Artifacts(fs)
    /\ \A d \in Prefixes(Parent(cap.path)) : d \in Dirs(fs)

\* A step that removes a file is a step of the sweep of a run whose createBackup
\* returned: a run whose createBackup throws deletes nothing.
DeletesOnlyInSweep ==
  Files(fs) \subseteq Files(fs') \/ (pc = "sweeping" /\ ~cap.error)

\* C15: cleanOldBackups runs only after createBackup has returned successfully;
\* for every DAYS_TO_KEEP >= 1 the artifact the run wrote and its year, month
\* and day directories exist when the run reports completion; and a run whose
\* createBackup fails ends without having deleted any artifact.
RunKeepsOwnArtifact ==
  /\ [](SweepAfterCapture /\ OwnArtifactKept)
  /\ [][DeletesOnlyInSweep]_vars

\* C15 witness: a run has completed whose sweep deleted an artifact of an
\* earlier run, and the artifact it wrote itself is there.
SweptOlderKeptOwn ==
  /\ pc = "completed"
  /\ sw.deleted > 0
  /\ ~sw.error
  /\ cap.path \in Artifacts(fs)
====
